---- MODULE Spec2Model ----
(***************************************************************************)
(* Model of the adiosnetwork repository.                                   *)
(*                                                                         *)
(* Part I  (specification Spec): Wands.request of src/src/wands/wands.py,  *)
(*   the cache/remote orchestration.  Its collaborators DataCache          *)
(*   (.data_cache) and WandsWAN (.wan) are imported by wands.py but are    *)
(*   not part of the sources; they are modelled by their contract.         *)
(* Part II (specification SpecNeg): ADIOSData.__getitem__ and ADIOSServer  *)
(*   of src/randomscripts/access_api.py, the request/ack/stream            *)
(*   negotiation over three channels.                                      *)
(*                                                                         *)
(* Python raises NameError when a name that is bound nowhere is read.      *)
(* Several statements of the sources read such names; the model keeps      *)
(* them as they are: the statement raises and the call ends there.         *)
(***************************************************************************)
EXTENDS Naturals, Integers, Sequences, FiniteSets, TLC

\* ------------------------------------------------------------------------
\* Bounds of the model
\* ------------------------------------------------------------------------
\* Total number of request() calls issued by all callers together.
MaxCalls == 2
\* Longest data_list handed to request().
MaxLen == 2

\* ------------------------------------------------------------------------
\* Universe
\* ------------------------------------------------------------------------
Files == {"f1", "f2"}
Names == {"a", "b", "c"}
Callers == {"o1", "o2"}

\* The producer-side store: "a" and "c" exist upstream, "b" does not.
SourceStore == ("a" :> 1) @@ ("c" :> 2)
\* Payload of an entry that was in the cache before the first call.
OldPayload == 0

EmptyMap == [n \in {} |-> 0]
Range(s) == {s[i] : i \in DOMAIN s}
SeqsUpTo(S, k) == UNION {[1..m -> S] : m \in 0..k}

VARIABLES
    \* ---- Part I: Wands.request -------------------------------------
    cache,            \* DataCache contents: filename -> (name -> payload)
    pc,               \* per caller: the statement request() is at
    filename,         \* per caller: argument filename
    data_list,        \* per caller: argument data_list
    remote_list,      \* per caller: local variable remote_list
    local_list,       \* per caller: local variable local_list
    data_from_cache,  \* per caller: local variable data_from_cache
    data_from_remote, \* per caller: local variable data_from_remote
    response,         \* per caller: local variable response
    partial,          \* per caller: mapping being built inside receive()
    idx,              \* per caller: position of receive() in its batch
    err,              \* per caller: exception that ended the call
    result,           \* per caller: value returned by the call
    obs,              \* per caller: what the current call did so far
    prev,             \* per caller: obs of the caller's previous call
    ncalls,           \* number of request() calls issued so far
    active,           \* the callers that run in this specification
    \* ---- Part II: ADIOSData / ADIOSServer ---------------------------
    client,           \* per link: the ADIOSData object ("absent", "ready", ...)
    cpc,              \* per link: the statement __getitem__ is at
    axis,             \* per link: argument axis of __getitem__
    cerr,             \* per link: exception that ended the consumer's call
    cret,             \* per link: value returned by __getitem__
    gets,             \* per link: number of __getitem__ calls so far
    server,           \* per link: the ADIOSServer object
    chan,             \* channel name -> state of its two ends
    links,            \* the connection identifiers in use in this run
    ppc,              \* per link: the statement the producer is at
    _axis,            \* per link: ADIOSServer._axis
    _axis_received,   \* per link: ADIOSServer._axis_received
    received_axis,    \* per link: local received_axis of _receive_axis
    perr,             \* per link: exception that ended chill()
    chills,           \* per link: number of chill() calls so far
    nread,            \* per link: requests the producer has read
    nsent,            \* per link: requests the peer consumer has written
    data_in,          \* per link: local data_in of __getitem__
    status            \* per link: local status of __getitem__

wvars == <<cache, pc, filename, data_list, remote_list, local_list,
           data_from_cache, data_from_remote, response, partial, idx,
           err, result, obs, prev, ncalls, active>>

nvars == <<client, cpc, axis, cerr, cret, gets, server, chan>>

pvars == <<links, ppc, _axis, _axis_received, received_axis, perr, chills,
           nread, nsent, data_in, status>>

vars == <<wvars, nvars, pvars>>

\* ------------------------------------------------------------------------
\* Part I.  Collaborators of Wands.request (contracts)
\* ------------------------------------------------------------------------
NotCalled == <<"not called">>
NoWrite == [f |-> "none", data |-> EmptyMap]
NoResponse == [status |-> 0, usable |-> FALSE]
\* What one call of request() did: the names that were cached when it checked,
\* the arguments it passed to its collaborators, what load returned and the
\* names receive has obtained a payload for.
NoObs == [cached |-> {}, load_arg |-> NotCalled, loaded |-> EmptyMap,
          post_arg |-> NotCalled, fetch_arg |-> NotCalled, got |-> {},
          write_arg |-> NoWrite]
NoPrev == [valid |-> FALSE, same |-> FALSE, notified |-> FALSE,
           fetched |-> FALSE, wrote |-> FALSE, err |-> "none"]

\* DataCache.check_availability(filename, data_list) -> (remote_list, local_list)
check_availability(c, f, dl) ==
    <<SelectSeq(dl, LAMBDA n : n \notin DOMAIN c[f]),
      SelectSeq(dl, LAMBDA n : n \in DOMAIN c[f])>>

\* DataCache.load_from_cache(filename, local_list) -> mapping
load_from_cache(c, f, ll) ==
    [n \in (Range(ll) \cap DOMAIN c[f]) |-> c[f][n]]

\* DataCache.write(filename, data_dict)
write(c, f, d) ==
    [c EXCEPT ![f] = [n \in (DOMAIN c[f]) \cup (DOMAIN d) |->
                        IF n \in DOMAIN d THEN d[n] ELSE c[f][n]]]

\* One negotiation cycle for one name, as the batch driver sees it: the
\* payload, AxisNotFound, or a transport failure.
cycle(name) ==
    {[kind |-> "TransportFailure", value |-> 0]} \cup
    (IF name \in DOMAIN SourceStore
        THEN {[kind |-> "Payload", value |-> SourceStore[name]]}
        ELSE {[kind |-> "AxisNotFound", value |-> 0]})

\* Variant of receive_step: a name that was not found is stored all the same.
receive_step_StoreMissing(p, name, oc) ==
    [n \in (DOMAIN p) \cup {name} |->
        IF n = name THEN oc.value ELSE p[n]]

\* WandsWAN.receive, one name of the batch: a payload is added under its
\* name, AxisNotFound leaves the mapping as it is.
receive_step(p, name, oc) ==
    IF oc.kind = "Payload"
        THEN [n \in (DOMAIN p) \cup {name} |->
                IF n = name THEN oc.value ELSE p[n]]
        ELSE p

\* requests.post(webaddress, json=data): a response, or the call raises.
Responses == [status : {200, 500}, usable : BOOLEAN]

\* ------------------------------------------------------------------------
\* Part I.  Wands.request, statement by statement
\* ------------------------------------------------------------------------
\* dict union: data_from_remote | data_from_cache (right operand wins).
Merge(left, right) ==
    [n \in (DOMAIN left) \cup (DOMAIN right) |->
        IF n \in DOMAIN right THEN right[n] ELSE left[n]]

\* timereq, timecheckav, timedatalocal, timeremote and timewrite are read
\* by the two logger.debug statements; every assignment to them is
\* commented out, and the module binds no such global.
TimingNamesBound == FALSE

\* The locals of caller o's frame of request().
SetLocals(o, rl, ll, dfc, dfr, rsp, prt, i) ==
    /\ remote_list' = [remote_list EXCEPT ![o] = rl]
    /\ local_list' = [local_list EXCEPT ![o] = ll]
    /\ data_from_cache' = [data_from_cache EXCEPT ![o] = dfc]
    /\ data_from_remote' = [data_from_remote EXCEPT ![o] = dfr]
    /\ response' = [response EXCEPT ![o] = rsp]
    /\ partial' = [partial EXCEPT ![o] = prt]
    /\ idx' = [idx EXCEPT ![o] = i]

\* An exception leaves request(): its frame, and with it the locals, is gone.
Raise(o, e) ==
    /\ pc' = [pc EXCEPT ![o] = "raised"]
    /\ err' = [err EXCEPT ![o] = e]
    /\ SetLocals(o, <<>>, <<>>, EmptyMap, EmptyMap, NoResponse, EmptyMap, 1)

\* The statement completes and control moves on to statement `to`.
Goto(o, to) ==
    /\ pc' = [pc EXCEPT ![o] = to]
    /\ UNCHANGED err

\* What the caller's previous call did, kept for comparing two calls in a row.
Summary(o, f, dl) ==
    [valid |-> TRUE,
     same |-> (f = filename[o] /\ dl = data_list[o]),
     notified |-> (obs[o].post_arg # NotCalled),
     fetched |-> (obs[o].fetch_arg # NotCalled),
     wrote |-> (obs[o].write_arg # NoWrite),
     err |-> err[o]]

\* def request(self, filename, data_list); data_from_remote = {}
Call(o, f, dl) ==
    /\ o \in active
    /\ pc[o] \in {"idle", "raised", "returned"}
    /\ ncalls < MaxCalls
    /\ ncalls' = ncalls + 1
    /\ prev' = [prev EXCEPT ![o] =
                  IF pc[o] = "idle" THEN NoPrev ELSE Summary(o, f, dl)]
    /\ filename' = [filename EXCEPT ![o] = f]
    /\ data_list' = [data_list EXCEPT ![o] = dl]
    /\ SetLocals(o, <<>>, <<>>, EmptyMap, EmptyMap, NoResponse, EmptyMap, 1)
    /\ err' = [err EXCEPT ![o] = "none"]
    /\ result' = [result EXCEPT ![o] = EmptyMap]
    /\ obs' = [obs EXCEPT ![o] = NoObs]
    /\ pc' = [pc EXCEPT ![o] = "check"]
    /\ UNCHANGED <<cache, active, nvars, pvars>>

\* Variant of StepCheck: local_list is the whole data_list, unfiltered.
StepCheck_NoFilter(o) ==
    /\ pc[o] = "check"
    /\ LET r == check_availability(cache, filename[o], data_list[o])
       IN SetLocals(o, r[1], data_list[o], data_from_cache[o],
                    data_from_remote[o], response[o], partial[o], idx[o])
    /\ obs' = [obs EXCEPT ![o].cached = DOMAIN cache[filename[o]]]
    /\ Goto(o, "load")
    /\ UNCHANGED <<cache, filename, data_list, result, prev, ncalls, active, nvars, pvars>>

\* remote_list, local_list = self.dataCache.check_availability(...)
StepCheck(o) ==
    /\ pc[o] = "check"
    /\ LET r == check_availability(cache, filename[o], data_list[o])
       IN SetLocals(o, r[1], r[2], data_from_cache[o], data_from_remote[o],
                    response[o], partial[o], idx[o])
    /\ obs' = [obs EXCEPT ![o].cached = DOMAIN cache[filename[o]]]
    /\ Goto(o, "load")
    /\ UNCHANGED <<cache, filename, data_list, result, prev, ncalls, active, nvars, pvars>>

\* Variant of StepLoad: the test is "if data_list:" instead of "if remote_list:".
StepLoad_AlwaysRemote(o) ==
    /\ pc[o] = "load"
    /\ SetLocals(o, IF remote_list[o] # <<>> THEN remote_list[o] ELSE data_list[o],
                 local_list[o],
                 load_from_cache(cache, filename[o], local_list[o]),
                 data_from_remote[o], response[o], partial[o], idx[o])
    /\ obs' = [obs EXCEPT ![o].load_arg = local_list[o],
                          ![o].loaded =
                              load_from_cache(cache, filename[o], local_list[o])]
    /\ Goto(o, IF data_list[o] # <<>> THEN "post" ELSE "log")
    /\ UNCHANGED <<cache, filename, data_list, result, prev, ncalls, active, nvars, pvars>>

\* data_from_cache = self.dataCache.load_from_cache(filename, local_list)
\* followed by the test "if remote_list:"
StepLoad(o) ==
    /\ pc[o] = "load"
    /\ SetLocals(o, remote_list[o], local_list[o],
                 load_from_cache(cache, filename[o], local_list[o]),
                 data_from_remote[o], response[o], partial[o], idx[o])
    /\ obs' = [obs EXCEPT ![o].load_arg = local_list[o],
                          ![o].loaded =
                              load_from_cache(cache, filename[o], local_list[o])]
    /\ Goto(o, IF remote_list[o] # <<>> THEN "post" ELSE "log")
    /\ UNCHANGED <<cache, filename, data_list, result, prev, ncalls, active, nvars, pvars>>

\* data = {"uri": filename, "signals": remote_list}
\* response = requests.post(self._webaddress, json=data)
\* logger.info(response.status_code)
StepPost(o) ==
    /\ pc[o] = "post"
    /\ obs' = [obs EXCEPT ![o].post_arg = remote_list[o]]
    /\ \/ \E r \in Responses :
            /\ SetLocals(o, remote_list[o], local_list[o], data_from_cache[o],
                         data_from_remote[o], r, partial[o], idx[o])
            /\ Goto(o, "json")
       \/ Raise(o, "ConnectionError")
    /\ UNCHANGED <<cache, filename, data_list, result, prev, ncalls, active, nvars, pvars>>

\* logger.info(response.json())
StepJson(o) ==
    /\ pc[o] = "json"
    /\ IF response[o].usable
          THEN /\ Goto(o, "receive")
               /\ UNCHANGED <<remote_list, local_list, data_from_cache,
                              data_from_remote, response, partial, idx>>
          ELSE Raise(o, "JSONDecodeError")
    /\ UNCHANGED <<cache, filename, data_list, result, obs, prev, ncalls, active, nvars, pvars>>

\* Variant of StepReceive: on a transport failure the payloads obtained so far
\* are written to the cache before the failure is passed on.
StepReceive_WritesPartial(o) ==
    /\ pc[o] = "receive"
    /\ \E oc \in cycle(remote_list[o][idx[o]]) :
          IF oc.kind = "TransportFailure"
             THEN /\ Raise(o, "TransportFailure")
                  /\ cache' = write(cache, filename[o], partial[o])
                  /\ obs' = [obs EXCEPT ![o].fetch_arg = remote_list[o]]
             ELSE LET p == receive_step(partial[o], remote_list[o][idx[o]], oc)
                      last == idx[o] = Len(remote_list[o])
                  IN /\ SetLocals(o, remote_list[o], local_list[o],
                                  data_from_cache[o],
                                  IF last THEN p ELSE data_from_remote[o],
                                  response[o], p,
                                  IF last THEN idx[o] ELSE idx[o] + 1)
                     /\ obs' = [obs EXCEPT ![o].fetch_arg = remote_list[o],
                                           ![o].got = DOMAIN p]
                     /\ Goto(o, IF last THEN "write" ELSE "receive")
                     /\ UNCHANGED cache
    /\ UNCHANGED <<filename, data_list, result, prev, ncalls, active, nvars, pvars>>

\* wandsWAN_obj = WandsWAN(parameters=self._Adiosparams)
\* data_from_remote = wandsWAN_obj.receive(remote_list)
\* One step per name of the batch; the assignment happens when receive returns.
StepReceive(o) ==
    /\ pc[o] = "receive"
    /\ \E oc \in cycle(remote_list[o][idx[o]]) :
          IF oc.kind = "TransportFailure"
             THEN /\ Raise(o, "TransportFailure")
                  /\ obs' = [obs EXCEPT ![o].fetch_arg = remote_list[o]]
             ELSE LET p == receive_step(partial[o], remote_list[o][idx[o]], oc)
                      last == idx[o] = Len(remote_list[o])
                  IN /\ SetLocals(o, remote_list[o], local_list[o],
                                  data_from_cache[o],
                                  IF last THEN p ELSE data_from_remote[o],
                                  response[o], p,
                                  IF last THEN idx[o] ELSE idx[o] + 1)
                     /\ obs' = [obs EXCEPT ![o].fetch_arg = remote_list[o],
                                           ![o].got = DOMAIN p]
                     /\ Goto(o, IF last THEN "write" ELSE "receive")
    /\ UNCHANGED <<cache, filename, data_list, result, prev, ncalls, active, nvars, pvars>>

\* Variant of StepWrite: data_dict=data_from_cache instead of data_from_remote.
StepWrite_FromCache(o) ==
    /\ pc[o] = "write"
    /\ cache' = write(cache, filename[o], data_from_cache[o])
    /\ obs' = [obs EXCEPT ![o].write_arg =
                 [f |-> filename[o], data |-> data_from_cache[o]]]
    /\ Goto(o, "log")
    /\ UNCHANGED <<filename, data_list, remote_list, local_list,
                   data_from_cache, data_from_remote, response, partial, idx,
                   result, prev, ncalls, active, nvars, pvars>>

\* Variant of StepWrite: the write is not keyed by the call's filename, the
\* fetched entries go under every file.
StepWrite_EveryFile(o) ==
    /\ pc[o] = "write"
    /\ cache' = [f \in Files |-> write(cache, f, data_from_remote[o])[f]]
    /\ obs' = [obs EXCEPT ![o].write_arg =
                 [f |-> filename[o], data |-> data_from_remote[o]]]
    /\ Goto(o, "log")
    /\ UNCHANGED <<filename, data_list, remote_list, local_list,
                   data_from_cache, data_from_remote, response, partial, idx,
                   result, prev, ncalls, active, nvars, pvars>>

\* self.dataCache.write(filename=filename, data_dict=data_from_remote)
StepWrite(o) ==
    /\ pc[o] = "write"
    /\ cache' = write(cache, filename[o], data_from_remote[o])
    /\ obs' = [obs EXCEPT ![o].write_arg =
                 [f |-> filename[o], data |-> data_from_remote[o]]]
    /\ Goto(o, "log")
    /\ UNCHANGED <<filename, data_list, remote_list, local_list,
                   data_from_cache, data_from_remote, response, partial, idx,
                   result, prev, ncalls, active, nvars, pvars>>

\* logger.debug(f"Timings: ... {timecheckav-timereq} ...")
\* logger.debug(f"t_getremote = {timeremote-timedatalocal} ...")
\* return data_from_remote | data_from_cache
StepLog(o) ==
    /\ pc[o] = "log"
    /\ IF TimingNamesBound
          THEN /\ result' = [result EXCEPT ![o] =
                               Merge(data_from_remote[o], data_from_cache[o])]
               /\ Goto(o, "returned")
               /\ SetLocals(o, <<>>, <<>>, EmptyMap, EmptyMap, NoResponse,
                            EmptyMap, 1)
          ELSE /\ Raise(o, "NameError")
               /\ UNCHANGED result
    /\ UNCHANGED <<cache, filename, data_list, obs, prev, ncalls, active, nvars, pvars>>

\* ------------------------------------------------------------------------
\* Part II.  access_api.py: channels
\* ------------------------------------------------------------------------
\* Maximum number of __getitem__ calls on one ADIOSData object.
MaxGets == 2

\* Connection identifiers (the link argument of both constructors).  Any
\* string is accepted; the last two are strings that begin like a channel
\* prefix followed by another identifier.
Links == {"l1", "l2", "axisl1", "_checkl1"}

\* A consumer that leaves the identifier out of the request channel's name.
RequestChannel_NoId(l) == "axis"
\* "axis" + self._link
RequestChannel(l) == "axis" \o l
\* "axis_check" + self._link
AckChannel(l) == "axis_check" \o l
\* self._link
DataChannel(l) == l

\* A producer that opens the bare identifier to read requests.
ServerRequestChannel_NoPrefix(l) == l
\* "axis" + self._link, as _receive_axis builds it
ServerRequestChannel(l) == "axis" \o l
\* "axis_check" + self._link, as _receive_axis builds it
ServerAckChannel(l) == "axis_check" \o l
\* self._link, as _send_data builds it
ServerDataChannel(l) == l

\* Every name either side can open.
ChannelNames ==
    UNION {{RequestChannel(l), AckChannel(l), DataChannel(l),
            ServerRequestChannel(l), ServerAckChannel(l),
            ServerDataChannel(l)} : l \in Links}

\* An end of a channel is closed, open, or open inside a step.
ClosedChannel == [writer |-> "closed", reader |-> "closed", steps |-> <<>>]

\* io.Open(name, adios2.Mode.Write)
OpenWrite(ch, name) == [ch EXCEPT ![name].writer = "open"]
\* writer.BeginStep()
WriterBeginStep(ch, name) == [ch EXCEPT ![name].writer = "step"]
\* io.Open(name, adios2.Mode.Read)
OpenRead(ch, name) == [ch EXCEPT ![name].reader = "open"]
\* reader.BeginStep()
ReaderBeginStep(ch, name) == [ch EXCEPT ![name].reader = "step"]
\* reader.EndStep(); reader.Close(): the step is consumed, the end closed
ReaderEndStepClose(ch, name) ==
    [ch EXCEPT ![name].reader = "closed", ![name].steps = Tail(@)]

\* ------------------------------------------------------------------------
\* Part II.  ADIOSData (consumer)
\* ------------------------------------------------------------------------
\* __getitem__ reads the name `data` in axis_writer.Put(sendbuffer, data);
\* neither the function nor the module binds it.
DataNameBound == FALSE

\* ADIOSServer.__init__ reads the name `adios` in adios.DeclareIO(...);
\* the module imports adios2 and binds no `adios`.
AdiosNameBound == FALSE

NoPayload == -1

\* ADIOSData.__init__(link, engine, **parameters).  With parameters it calls
\* self.set_parameters(self._parameters): one positional argument for a
\* method that takes keyword arguments only, a TypeError.
DataInit(l, withParameters) ==
    /\ client[l] = "absent"
    /\ client' = [client EXCEPT ![l] =
                    IF withParameters THEN "TypeError" ELSE "ready"]
    /\ UNCHANGED <<cpc, axis, cerr, cret, gets, server, chan, wvars, pvars>>

\* def __getitem__(self, axis)
GetItem(l, ax) ==
    /\ client[l] = "ready"
    /\ cpc[l] \in {"idle", "raised", "returned"}
    /\ gets[l] < MaxGets
    /\ gets' = [gets EXCEPT ![l] = gets[l] + 1]
    /\ axis' = [axis EXCEPT ![l] = ax]
    /\ cerr' = [cerr EXCEPT ![l] = "none"]
    /\ cret' = [cret EXCEPT ![l] = NoPayload]
    /\ cpc' = [cpc EXCEPT ![l] = "open_axis"]
    /\ UNCHANGED <<client, server, chan, wvars, pvars>>

\* axis_writer = self._io.Open("axis" + self._link, adios2.Mode.Write)
\* axis_as_bytes = bytearray(axis, "utf-8"); sendbuffer = DefineVariable(...)
OpenAxisWriter(l) ==
    /\ cpc[l] = "open_axis"
    /\ chan' = OpenWrite(chan, RequestChannel(l))
    /\ cpc' = [cpc EXCEPT ![l] = "begin_axis"]
    /\ UNCHANGED <<client, axis, cerr, cret, gets, server, wvars, pvars>>

\* axis_writer.BeginStep()
AxisBeginStep(l) ==
    /\ cpc[l] = "begin_axis"
    /\ chan' = WriterBeginStep(chan, RequestChannel(l))
    /\ cpc' = [cpc EXCEPT ![l] = "put_axis"]
    /\ UNCHANGED <<client, axis, cerr, cret, gets, server, wvars, pvars>>

\* axis_writer.Put(sendbuffer, data)
AxisPut(l) ==
    /\ cpc[l] = "put_axis"
    /\ IF DataNameBound
          THEN /\ cpc' = [cpc EXCEPT ![l] = "end_axis"]
               /\ UNCHANGED cerr
          ELSE /\ cpc' = [cpc EXCEPT ![l] = "raised"]
               /\ cerr' = [cerr EXCEPT ![l] = "NameError"]
    /\ UNCHANGED <<client, axis, cret, gets, server, chan, wvars, pvars>>

\* ------------------------------------------------------------------------
\* Part II.  ADIOSData (consumer): the streaming loop of __getitem__
\* ------------------------------------------------------------------------
\* Maximum number of steps in a data stream.
MaxSteps == 2

\* Line 104 binds `receveived_data`; lines 108 and 115 read `received_data`,
\* which neither the function nor the module binds.
ReceivedDataNameBound == FALSE

\* What a producer may have written on the data channel of link l for axis
\* ax: steps that carry the variable named ax, and steps that do not carry
\* it yet.
StreamSteps(l, ax) ==
    {[var |-> ax, value |-> SourceStore[ax], by |-> l],
     [var |-> "none", value |-> NoPayload, by |-> l]}

\* data_reader = self._io.Open(self._link, adios2.Mode.Read)
\* data_in = self._io.InquireVariable(axis)
\* receveived_data = np.zeros(data_in.Shape())
\* InquireVariable runs before any step was begun: the variable is known to
\* the io object or it is not, and then data_in has no Shape().
StreamOpen(l, known) ==
    /\ cpc[l] = "open_data"
    /\ chan' = OpenRead(chan, DataChannel(l))
    /\ data_in' = [data_in EXCEPT ![l] = known]
    /\ IF known
          THEN /\ cpc' = [cpc EXCEPT ![l] = "begin_data"]
               /\ UNCHANGED cerr
          ELSE /\ cpc' = [cpc EXCEPT ![l] = "raised"]
               /\ cerr' = [cerr EXCEPT ![l] = "AttributeError"]
    /\ UNCHANGED <<client, axis, cret, gets, server, wvars,
                   links, ppc, _axis, _axis_received, received_axis, perr,
                   chills, nread, nsent, status>>

\* while (status := data_reader.BeginStep()) == adios2.StepStatus.OK:
\* on a stream that its writer has closed
StreamBeginStep(l) ==
    /\ cpc[l] = "begin_data"
    /\ IF chan[DataChannel(l)].steps # <<>>
          THEN /\ status' = [status EXCEPT ![l] = "OK"]
               /\ chan' = ReaderBeginStep(chan, DataChannel(l))
               /\ cpc' = [cpc EXCEPT ![l] = "get_data"]
          ELSE /\ status' = [status EXCEPT ![l] = "EndOfStream"]
               /\ cpc' = [cpc EXCEPT ![l] = "close_data"]
               /\ UNCHANGED chan
    /\ UNCHANGED <<client, axis, cerr, cret, gets, server, wvars,
                   links, ppc, _axis, _axis_received, received_axis, perr,
                   chills, nread, nsent, data_in>>

\*     if data_in:
\*         data_reader.Get(data_in, received_data, adios2.Mode.Sync)
\*         data_reader.EndStep()
\*     if status == adios2.StepStatus.EndOfStream: break
\* EndStep is inside the if; status is OK inside the loop, so the break is
\* never taken.
StreamGet(l) ==
    /\ cpc[l] = "get_data"
    /\ IF data_in[l] = TRUE
          THEN IF ReceivedDataNameBound
                  THEN /\ chan' = [chan EXCEPT
                                     ![DataChannel(l)].reader = "open",
                                     ![DataChannel(l)].steps = Tail(@)]
                       /\ cpc' = [cpc EXCEPT ![l] = "begin_data"]
                       /\ UNCHANGED cerr
                  ELSE /\ cpc' = [cpc EXCEPT ![l] = "raised"]
                       /\ cerr' = [cerr EXCEPT ![l] = "NameError"]
                       /\ UNCHANGED chan
          ELSE /\ cpc' = [cpc EXCEPT ![l] = "begin_data"]
               /\ UNCHANGED <<cerr, chan>>
    /\ UNCHANGED <<client, axis, cret, gets, server, wvars, pvars>>

\* data_reader.Close()
StreamClose(l) ==
    /\ cpc[l] = "close_data"
    /\ chan' = [chan EXCEPT ![DataChannel(l)].reader = "closed"]
    /\ cpc' = [cpc EXCEPT ![l] = "return_data"]
    /\ UNCHANGED <<client, axis, cerr, cret, gets, server, wvars, pvars>>

\* return received_data
StreamReturn(l) ==
    /\ cpc[l] = "return_data"
    /\ IF ReceivedDataNameBound
          THEN /\ cpc' = [cpc EXCEPT ![l] = "returned"]
               /\ UNCHANGED cerr
          ELSE /\ cpc' = [cpc EXCEPT ![l] = "raised"]
               /\ cerr' = [cerr EXCEPT ![l] = "NameError"]
    /\ UNCHANGED <<client, axis, cret, gets, server, chan, wvars, pvars>>

\* ------------------------------------------------------------------------
\* Part II.  ADIOSServer (producer)
\* ------------------------------------------------------------------------
\* ADIOSServer.__init__(link, source, engine, **parameters):
\* self._adios = adios2.ADIOS(); self._io = adios.DeclareIO(self._link)
ServerInit(l) ==
    /\ server[l] = "absent"
    /\ server' = [server EXCEPT ![l] =
                    IF AdiosNameBound THEN "ready" ELSE "NameError"]
    /\ UNCHANGED <<client, cpc, axis, cerr, cret, gets, chan, wvars, pvars>>

\* Maximum number of chill() calls on one ADIOSServer object.
MaxChills == 2
\* Maximum number of requests a peer consumer sends on one link.
MaxRequests == 2

\* _receive_axis opens the store `as hf5ile` and then reads the name
\* `h5file`; neither the function nor the module binds it.
H5fileNameBound == FALSE

\* def chill(self): while True: self._receive_axis() ...
\* Entered on an object that was never in chill() or whose chill() ended
\* with an exception.
Chill(l) ==
    /\ server[l] = "ready"
    /\ ppc[l] \in {"idle", "raised"}
    /\ chills[l] < MaxChills
    /\ chills' = [chills EXCEPT ![l] = chills[l] + 1]
    /\ perr' = [perr EXCEPT ![l] = "none"]
    /\ ppc' = [ppc EXCEPT ![l] = "open_axis"]
    /\ UNCHANGED <<links, _axis, _axis_received, received_axis, nread, nsent,
                   data_in, status, nvars, wvars>>

\* axis_reader = self._io.Open("axis" + self._link, adios2.Mode.Read)
\* axis = self._io.InquireVariable("axis")
ReceiveOpen(l) ==
    /\ ppc[l] = "open_axis"
    /\ chan' = OpenRead(chan, ServerRequestChannel(l))
    /\ ppc' = [ppc EXCEPT ![l] = "begin_axis"]
    /\ UNCHANGED <<client, cpc, axis, cerr, cret, gets, server, wvars,
                   links, _axis, _axis_received, received_axis, perr, chills,
                   nread, nsent, data_in, status>>

\* axis_reader.BeginStep(): blocks until the writer has completed a step
ReceiveBeginStep(l) ==
    /\ ppc[l] = "begin_axis"
    /\ chan[ServerRequestChannel(l)].steps # <<>>
    /\ chan' = ReaderBeginStep(chan, ServerRequestChannel(l))
    /\ ppc' = [ppc EXCEPT ![l] = "get_axis"]
    /\ UNCHANGED <<client, cpc, axis, cerr, cret, gets, server, wvars,
                   links, _axis, _axis_received, received_axis, perr, chills,
                   nread, nsent, data_in, status>>

\* received_axis = np.zeros(axis.Shape()); axis_reader.Get(axis, received_axis)
\* axis_reader.EndStep(); axis_reader.Close()
ReceiveGet(l) ==
    /\ ppc[l] = "get_axis"
    /\ received_axis' = [received_axis EXCEPT ![l] =
                            Head(chan[ServerRequestChannel(l)].steps).value]
    /\ chan' = ReaderEndStepClose(chan, ServerRequestChannel(l))
    /\ nread' = [nread EXCEPT ![l] = nread[l] + 1]
    /\ ppc' = [ppc EXCEPT ![l] = "lookup"]
    /\ UNCHANGED <<client, cpc, axis, cerr, cret, gets, server, wvars,
                   links, _axis, _axis_received, perr, chills, nsent,
                   data_in, status>>

\* try:
\*     self._axis = bytes(list(received_axis)).decode("utf-8")
\*     with h5py.File(self._source, "r") as hf5ile:
\*         _ = h5file[self._axis]
\*     self._axis_received = True
\* except KeyError:
\*     self._axis_received = False; self._axis = None
\* The NameError of h5file is no KeyError: it leaves _receive_axis and chill.
ReceiveLookup(l) ==
    /\ ppc[l] = "lookup"
    /\ IF H5fileNameBound
          THEN /\ IF received_axis[l] \in DOMAIN SourceStore
                     THEN /\ _axis' = [_axis EXCEPT ![l] = received_axis[l]]
                          /\ _axis_received' =
                                 [_axis_received EXCEPT ![l] = TRUE]
                     ELSE /\ _axis' = [_axis EXCEPT ![l] = "None"]
                          /\ _axis_received' =
                                 [_axis_received EXCEPT ![l] = FALSE]
               /\ ppc' = [ppc EXCEPT ![l] = "open_ack"]
               /\ UNCHANGED perr
          ELSE /\ _axis' = [_axis EXCEPT ![l] = received_axis[l]]
               /\ ppc' = [ppc EXCEPT ![l] = "raised"]
               /\ perr' = [perr EXCEPT ![l] = "NameError"]
               /\ UNCHANGED _axis_received
    /\ UNCHANGED <<links, received_axis, chills, nread, nsent, data_in,
                   status, nvars, wvars>>

\* ------------------------------------------------------------------------
\* Part II.  A consumer that follows section 4.2, step 1
\* ------------------------------------------------------------------------
\* The peer opens the request channel, writes one step that carries the axis
\* name and closes the channel.  It sends its next request only when no
\* producer cycle is under way on the link.
PeerRequest(l, name) ==
    /\ nsent[l] < MaxRequests
    /\ nsent[l] = nread[l]
    /\ ppc[l] \in {"idle", "open_axis", "begin_axis", "raised"}
    /\ chan[RequestChannel(l)].writer = "closed"
    /\ chan' = [chan EXCEPT ![RequestChannel(l)].steps =
                   Append(@, [var |-> "axis", value |-> name, by |-> l])]
    /\ nsent' = [nsent EXCEPT ![l] = nsent[l] + 1]
    /\ UNCHANGED <<client, cpc, axis, cerr, cret, gets, server, wvars,
                   links, ppc, _axis, _axis_received, received_axis, perr,
                   chills, nread, data_in, status>>

NInit ==
    /\ client = [l \in Links |-> "absent"]
    /\ cpc = [l \in Links |-> "idle"]
    /\ axis = [l \in Links |-> ""]
    /\ cerr = [l \in Links |-> "none"]
    /\ cret = [l \in Links |-> NoPayload]
    /\ gets = [l \in Links |-> 0]
    /\ server = [l \in Links |-> "absent"]
    /\ chan = [c \in ChannelNames |-> ClosedChannel]

\* Class attributes of ADIOSServer (_axis = None, _axis_received = False) and
\* the locals of both sides before any call.
PInit ==
    /\ ppc = [l \in Links |-> "idle"]
    /\ _axis = [l \in Links |-> "None"]
    /\ _axis_received = [l \in Links |-> FALSE]
    /\ received_axis = [l \in Links |-> "None"]
    /\ perr = [l \in Links |-> "none"]
    /\ chills = [l \in Links |-> 0]
    /\ nread = [l \in Links |-> 0]
    /\ nsent = [l \in Links |-> 0]
    /\ data_in = [l \in Links |-> "unset"]
    /\ status = [l \in Links |-> "none"]

\* The cache before the first call: per file, nothing or a stale "a".
InitCaches ==
    {[f \in Files |-> [n \in s[f] |-> OldPayload]] :
        s \in [Files -> {{}, {"a"}}]}

WInit ==
    /\ cache \in InitCaches
    /\ pc = [o \in Callers |-> "idle"]
    /\ filename = [o \in Callers |-> "none"]
    /\ data_list = [o \in Callers |-> <<>>]
    /\ remote_list = [o \in Callers |-> <<>>]
    /\ local_list = [o \in Callers |-> <<>>]
    /\ data_from_cache = [o \in Callers |-> EmptyMap]
    /\ data_from_remote = [o \in Callers |-> EmptyMap]
    /\ response = [o \in Callers |-> NoResponse]
    /\ partial = [o \in Callers |-> EmptyMap]
    /\ idx = [o \in Callers |-> 1]
    /\ err = [o \in Callers |-> "none"]
    /\ result = [o \in Callers |-> EmptyMap]
    /\ obs = [o \in Callers |-> NoObs]
    /\ prev = [o \in Callers |-> NoPrev]
    /\ ncalls = 0

Init ==
    /\ WInit
    /\ active = {"o1"}
    /\ NInit
    /\ PInit
    /\ links = {}

Next ==
    \E o \in Callers :
        \/ \E f \in Files, dl \in SeqsUpTo(Names, MaxLen) : Call(o, f, dl)
        \/ StepCheck(o)
        \/ StepLoad(o)
        \/ StepPost(o)
        \/ StepJson(o)
        \/ StepReceive(o)
        \/ StepWrite(o)
        \/ StepLog(o)

Spec == Init /\ [][Next]_vars

\* Two orchestrations that run request() concurrently on one cache, which
\* holds a stale "a" under the first file.
ParCache ==
    [f \in Files |->
        IF f = "f1" THEN [n \in {"a"} |-> OldPayload] ELSE EmptyMap]

InitPar ==
    /\ WInit
    /\ cache = ParCache
    /\ active = Callers
    /\ NInit
    /\ PInit
    /\ links = {}

SpecPar == InitPar /\ [][Next]_vars

\* The negotiation: one consumer and one producer per link, no request() call.
InitNeg ==
    /\ WInit
    /\ cache = [f \in Files |-> EmptyMap]
    /\ active = {}
    /\ NInit
    /\ PInit
    /\ links = {"l1", "l2"}

NextNeg ==
    \E l \in links :
        \/ \E withParameters \in BOOLEAN : DataInit(l, withParameters)
        \/ \E ax \in Names : GetItem(l, ax)
        \/ OpenAxisWriter(l)
        \/ AxisBeginStep(l)
        \/ AxisPut(l)
        \/ ServerInit(l)

SpecNeg == InitNeg /\ [][NextNeg]_vars

\* Pairs of distinct connection identifiers.
LinkPairs == {ls \in SUBSET Links : Cardinality(ls) = 2}

\* The producer loop on objects whose fields are set the way __init__ sets
\* them, each served by a consumer that follows section 4.2.
InitSrv ==
    /\ WInit
    /\ cache = [f \in Files |-> EmptyMap]
    /\ active = {}
    /\ links \in LinkPairs
    /\ client = [l \in Links |-> "absent"]
    /\ cpc = [l \in Links |-> "idle"]
    /\ axis = [l \in Links |-> ""]
    /\ cerr = [l \in Links |-> "none"]
    /\ cret = [l \in Links |-> NoPayload]
    /\ gets = [l \in Links |-> 0]
    /\ server = [l \in Links |-> IF l \in links THEN "ready" ELSE "absent"]
    /\ chan = [c \in ChannelNames |-> ClosedChannel]
    /\ PInit

NextSrv ==
    \E l \in links :
        \/ Chill(l)
        \/ ReceiveOpen(l)
        \/ ReceiveBeginStep(l)
        \/ ReceiveGet(l)
        \/ ReceiveLookup(l)
        \/ \E name \in Names : PeerRequest(l, name)

SpecSrv == InitSrv /\ [][NextSrv]_vars

\* Two pairings: on each of two connection identifiers one consumer object
\* and one producer object, the producer's fields set the way __init__ sets
\* them.
InitPair ==
    /\ WInit
    /\ cache = [f \in Files |-> EmptyMap]
    /\ active = {}
    /\ links \in LinkPairs
    /\ client = [l \in Links |-> "absent"]
    /\ cpc = [l \in Links |-> "idle"]
    /\ axis = [l \in Links |-> ""]
    /\ cerr = [l \in Links |-> "none"]
    /\ cret = [l \in Links |-> NoPayload]
    /\ gets = [l \in Links |-> 0]
    /\ server = [l \in Links |-> IF l \in links THEN "ready" ELSE "absent"]
    /\ chan = [c \in ChannelNames |-> ClosedChannel]
    /\ PInit

NextPair ==
    \E l \in links :
        \/ \E withParameters \in BOOLEAN : DataInit(l, withParameters)
        \/ \E ax \in Names : GetItem(l, ax)
        \/ OpenAxisWriter(l)
        \/ AxisBeginStep(l)
        \/ AxisPut(l)
        \/ Chill(l)
        \/ ReceiveOpen(l)

SpecPair == InitPair /\ [][NextPair]_vars

\* The streaming loop of __getitem__ on its own: a consumer that has read a
\* true acknowledgment for an axis of the source store stands before line
\* 101, and the producer has written a stream on the data channel and closed
\* it.
InitStream ==
    /\ WInit
    /\ cache = [f \in Files |-> EmptyMap]
    /\ active = {}
    /\ links \in {{l} : l \in Links}
    /\ client = [l \in Links |-> IF l \in links THEN "ready" ELSE "absent"]
    /\ cpc = [l \in Links |-> IF l \in links THEN "open_data" ELSE "idle"]
    /\ \E ax \in DOMAIN SourceStore :
          /\ axis = [l \in Links |-> IF l \in links THEN ax ELSE ""]
          /\ \E l \in links : \E st \in SeqsUpTo(StreamSteps(l, ax), MaxSteps) :
                chan = [c \in ChannelNames |->
                          IF c = DataChannel(l)
                             THEN [ClosedChannel EXCEPT !.steps = st]
                             ELSE ClosedChannel]
    /\ cerr = [l \in Links |-> "none"]
    /\ cret = [l \in Links |-> NoPayload]
    /\ gets = [l \in Links |-> IF l \in links THEN 1 ELSE 0]
    /\ server = [l \in Links |-> "absent"]
    /\ PInit

NextStream ==
    \E l \in links :
        \/ \E known \in BOOLEAN : StreamOpen(l, known)
        \/ StreamBeginStep(l)
        \/ StreamGet(l)
        \/ StreamClose(l)
        \/ StreamReturn(l)

SpecStream == InitStream /\ [][NextStream]_vars

\* ------------------------------------------------------------------------
\* Properties
\* ------------------------------------------------------------------------
\* A call of request() / __getitem__ has ended, by return or by exception.
Ended(o) == pc[o] \in {"raised", "returned"}
GetEnded(l) == cpc[l] \in {"raised", "returned"}

\* Failures that come from outside request(): the notification call, its
\* response, the transport.
CollaboratorFailures == {"ConnectionError", "JSONDecodeError", "TransportFailure"}

\* C1: for an axis present in the source store, a negotiation cycle ends with
\* the consumer returning the payload the source store holds for that name.
C1_PresentAxisReturnsPayload ==
    \A l \in Links :
        (GetEnded(l) /\ axis[l] \in DOMAIN SourceStore)
            => (cpc[l] = "returned" /\ cret[l] = SourceStore[axis[l]])

\* C2: for an axis absent from the source store, the cycle fails on the
\* consumer side with KeyError and neither side touches the data channel.
C2_AbsentAxisRaisesKeyError ==
    \A l \in Links :
        (GetEnded(l) /\ axis[l] \notin DOMAIN SourceStore)
            => /\ cpc[l] = "raised"
               /\ cerr[l] = "KeyError"
               /\ chan[DataChannel(l)] = ClosedChannel

\* C3: with some names cached and the others not (all of them upstream), load
\* is called with exactly the cached names, the remote fetch with exactly the
\* uncached ones, and request returns a mapping with every requested name.
C3_SplitLoadFetchReturn ==
    \A o \in Callers :
        LET names == Range(data_list[o])
            cachedNames == names \cap obs[o].cached
            uncached == names \ obs[o].cached
        IN (/\ Ended(o)
            /\ err[o] \notin CollaboratorFailures
            /\ cachedNames # {}
            /\ uncached # {}
            /\ uncached \subseteq DOMAIN SourceStore)
               => /\ Range(obs[o].load_arg) = cachedNames
                  /\ Range(obs[o].fetch_arg) = uncached
                  /\ pc[o] = "returned"
                  /\ DOMAIN result[o] = names

\* C4: request(f, [y]) called twice in a row, y uncached at first and present
\* upstream, the first call having fetched and written back: the second call
\* notifies nobody, fetches nothing, writes nothing and loads y from the cache,
\* so one remote fetch happens across the two calls.
C4_SecondCallLocalOnly ==
    \A o \in Callers :
        (/\ pc[o] \in {"log", "raised", "returned"}
         /\ prev[o].valid
         /\ prev[o].same
         /\ prev[o].fetched
         /\ prev[o].wrote
         /\ Len(data_list[o]) = 1
         /\ data_list[o][1] \in DOMAIN SourceStore)
            => /\ obs[o].post_arg = NotCalled
               /\ obs[o].fetch_arg = NotCalled
               /\ obs[o].write_arg = NoWrite
               /\ obs[o].load_arg = data_list[o]
               /\ DOMAIN obs[o].loaded = {data_list[o][1]}

C4_Witness ==
    \E o \in Callers :
        /\ pc[o] = "raised"
        /\ prev[o].valid /\ prev[o].same /\ prev[o].fetched /\ prev[o].wrote
        /\ data_list[o] = <<"c">>
        /\ obs[o].load_arg = <<"c">>

\* C5: once check_availability has answered, remote_list and local_list are
\* disjoint and together hold exactly the distinct names of data_list.
C5_Partition ==
    \A o \in Callers :
        pc[o] \in {"load", "post", "json", "receive", "write", "log"}
            => /\ Range(remote_list[o]) \cap Range(local_list[o]) = {}
               /\ Range(remote_list[o]) \cup Range(local_list[o])
                      = Range(data_list[o])

C5_Witness ==
    \E o \in Callers :
        /\ pc[o] = "log"
        /\ remote_list[o] # <<>>
        /\ local_list[o] # <<>>

\* C6: the mapping a batch fetch returns has exactly the names of the batch
\* that exist upstream, each with the upstream payload; a name that is not
\* found raises nothing and the names after it are still fetched.
C6_BatchOmitsAbsent ==
    \A o \in Callers :
        /\ err[o] # "KeyError"
        /\ pc[o] = "write"
              => /\ DOMAIN data_from_remote[o]
                       = Range(remote_list[o]) \cap DOMAIN SourceStore
                 /\ \A n \in DOMAIN data_from_remote[o] :
                       data_from_remote[o][n] = SourceStore[n]

C6_Witness ==
    \E o \in Callers :
        /\ pc[o] = "write"
        /\ \E i, j \in DOMAIN remote_list[o] :
              /\ i < j
              /\ remote_list[o][i] \notin DOMAIN SourceStore
              /\ remote_list[o][j] \in DOMAIN SourceStore
              /\ remote_list[o][j] \in DOMAIN data_from_remote[o]

\* C7: a transport failure in any cycle of the fetch ends request() with that
\* failure: nothing is returned, the call writes nothing, and the step in
\* which the failure occurs leaves the cache as it was.
C7_TransportFailureAborts ==
    /\ [](\A o \in Callers :
            err[o] = "TransportFailure"
               => /\ pc[o] = "raised"
                  /\ result[o] = EmptyMap
                  /\ obs[o].write_arg = NoWrite)
    /\ [][\A o \in Callers :
            (err[o] # "TransportFailure" /\ err'[o] = "TransportFailure")
               => cache' = cache]_vars

C7_Witness ==
    \E o \in Callers :
        /\ err[o] = "TransportFailure"
        /\ obs[o].got # {}
        /\ obs[o].got \cap DOMAIN cache[filename[o]] = {}

\* C8: a failing notification call does not abort request(): a call that
\* notified always goes on to the remote fetch and the write-back.
C8_NotificationFailureTolerated ==
    \A o \in Callers :
        (Ended(o) /\ obs[o].post_arg # NotCalled /\ err[o] # "TransportFailure")
            => /\ obs[o].fetch_arg # NotCalled
               /\ obs[o].write_arg # NoWrite

\* C9: a call that loaded data from the cache and fetched data remotely
\* succeeds and returns the merge of the two in which a name held by both
\* sides has the local value and every other name the value of the side that
\* holds it.
C9_ReturnsMergeLocalWins ==
    \A o \in Callers :
        (/\ Ended(o)
         /\ err[o] \notin CollaboratorFailures
         /\ obs[o].loaded # EmptyMap
         /\ obs[o].write_arg.data # EmptyMap)
            => /\ pc[o] = "returned"
               /\ LET loaded == obs[o].loaded
                      fetched == obs[o].write_arg.data
                  IN result[o] =
                       [n \in (DOMAIN loaded) \cup (DOMAIN fetched) |->
                          IF n \in DOMAIN loaded THEN loaded[n] ELSE fetched[n]]

\* C10: once the remote fetch of a call has succeeded and the call is past its
\* write step, every pair the fetch returned is in the cache under the call's
\* filename, and it was this call that wrote it.
C10_FetchedIsWrittenBack ==
    \A o \in Callers :
        (/\ pc[o] \in {"log", "raised", "returned"}
         /\ obs[o].fetch_arg # NotCalled
         /\ err[o] # "TransportFailure")
            => /\ obs[o].write_arg.f = filename[o]
               /\ DOMAIN obs[o].write_arg.data = obs[o].got
               /\ pc[o] = "log" => obs[o].write_arg.data = data_from_remote[o]
               /\ \A n \in obs[o].got :
                     /\ n \in DOMAIN cache[filename[o]]
                     /\ cache[filename[o]][n] = obs[o].write_arg.data[n]
                     /\ cache[filename[o]][n] = SourceStore[n]

C10_Witness ==
    \E o \in Callers :
        /\ pc[o] = "raised"
        /\ err[o] = "NameError"
        /\ obs[o].got # {}


\* ------------------------------------------------------------------------
\* Properties of the negotiation, producer side
\* ------------------------------------------------------------------------
\* The producer is between two cycles: it is not inside _receive_axis past
\* the read of a request, nor inside _send_data.
BetweenCycles(l) == ppc[l] \in {"idle", "open_axis", "begin_axis", "raised"}

\* The acknowledgment steps written on the ack channel of link l.
AckSteps(l) ==
    SelectSeq(chan[ServerAckChannel(l)].steps,
              LAMBDA st : st.var = "axis_check")

\* The payload steps written on the data channel of link l.
DataSteps(l) ==
    SelectSeq(chan[ServerDataChannel(l)].steps,
              LAMBDA st : st.var \notin {"axis", "axis_check"})

ConsumerOpenEnds(l) ==
    {c \in {RequestChannel(l)} : chan[c].writer # "closed"}
        \cup {c \in {AckChannel(l), DataChannel(l)} : chan[c].reader # "closed"}
ProducerOpenEnds(l) ==
    {c \in {ServerRequestChannel(l)} : chan[c].reader # "closed"}
        \cup {c \in {ServerAckChannel(l), ServerDataChannel(l)} :
                 chan[c].writer # "closed"}

TrueAcks(l) == SelectSeq(AckSteps(l), LAMBDA st : st.value = TRUE)

C18_CycleEndsBothSides ==
    \A l \in links :
        GetEnded(l) =>
            /\ cpc[l] = "returned" \/ cerr[l] = "KeyError"
            /\ chills[l] > 0 => nread[l] = gets[l]

\* The channel names either side derives from connection identifier l.
ChannelsOf(l) ==
    {RequestChannel(l), AckChannel(l), DataChannel(l),
     ServerRequestChannel(l), ServerAckChannel(l), ServerDataChannel(l)}

\* A pairing is in flight on link l: a consumer has started a request and
\* the producer loop has been started.
InFlight(l) == gets[l] > 0 /\ chills[l] > 0

\* Identifier b is identifier a with a channel prefix, or with the part of
\* the ack prefix that follows the request prefix, put in front.
Prefixed(a, b) == b \in {"axis" \o a, "axis_check" \o a, "_check" \o a}

C20_CacheChangedOnlyByOwnWrite ==
    /\ [][cache' # cache =>
            \E o \in active :
                /\ pc[o] = "write" /\ pc'[o] = "log"
                /\ remote_list[o] # <<>>
                /\ obs[o].write_arg = NoWrite
                /\ \A f \in Files \ {filename[o]} : cache'[f] = cache[f]]_vars
    /\ [](\A o \in active :
            (pc[o] \notin {"idle", "check"}
                 /\ Range(data_list[o]) \subseteq obs[o].cached)
               => /\ obs[o].post_arg = NotCalled
                  /\ obs[o].fetch_arg = NotCalled
                  /\ obs[o].write_arg = NoWrite)

\* Two orchestrations are in flight on different filenames; one has written
\* fetched entries under its own file while the other is between its check
\* and its write.
C20_Witness ==
    \E o \in active : \E p \in active :
        /\ o # p
        /\ filename[o] # filename[p]
        /\ pc[o] = "log"
        /\ obs[o].write_arg.data # EmptyMap
        /\ cache[filename[o]] # ParCache[filename[o]]
        /\ pc[p] \in {"load", "post", "json", "receive", "write"}

====
